---- MODULE Spec2Model ----
(***************************************************************************)
(* A model of analyze.py: the three reporting stages (score comparison,    *)
(* backfill-admission matching, cross analysis) and the batch run that     *)
(* chains them through files of the result directory.                      *)
(*                                                                         *)
(* Conventions.  A text is a sequence of one-character strings.  Chinese   *)
(* column names are written in pinyin:                                     *)
(*   zhaolu_jiguan  = zhao lu ji guan  (hiring authority)                  *)
(*   bumen_mingcheng = bu men ming cheng (department name, backfill file)  *)
(*   zhiwei_daima   = zhi wei dai ma   (position code)                     *)
(*   yongren_siju   = yong ren si ju   (supervising department)            *)
(*   zhaokao_zhiwei = zhao kao zhi wei (position title)                    *)
(*   zuidi_fenshu   = zui di mian shi fen shu (original minimum score)     *)
(*   dibu_fenshu    = di bu ru wei mian shi zui di fen shu (backfill score)*)
(*   xingming       = xing ming        (candidate name)                    *)
(*   ni_luyong_zhiwei = ni lu yong zhi wei (proposed position, free text)  *)
(*   zhaolu_zhiwei  = zhao lu zhi wei  (recruiting position title)         *)
(*   yuanshi_renshu = yuan shi jin mian ren shu (original count)           *)
(*   dibu_renshu    = di bu jin mian ren shu (backfill count)              *)
(*   fenshu_bianhua = fen shu xian bian hua (score delta)                  *)
(*   luyong_renshu  = di bu lu yong ren shu (hired backfill count)         *)
(*   luyong_renyuan = di bu lu yong ren yuan (hired backfill names)        *)
(* Non-ASCII literals of the source have ASCII stand-ins: the delimiter    *)
(* U+3001 is ";", the department marker is the text "NFRA".                *)
(* Scores are held in thousandths (82.5 is 82500).                         *)
(***************************************************************************)
EXTENDS Integers, Sequences, FiniteSets, TLC

VARIABLES
    original,          \* the original roster file, as read (a sequence of rows)
    supplementary,     \* the backfill roster file, as read
    admission,         \* the admission roster file, as read
    cwd,               \* names of the report files present in the working directory
    result,            \* the result directory: file name -> table, or NoFile
    result_at_start,   \* the result directory when the run started (history)
    ran,               \* stages that ran in this run (history)
    pc,                \* position of the run
    result_scores,     \* the frame compare_interview_scores returned
    result_admission,  \* the frame analyze_supplementary_admission returned
    exc                \* the uncaught exception that ended the run, or ""

vars == <<original, supplementary, admission, cwd, result, result_at_start, ran, pc,
          result_scores, result_admission, exc>>

----------------------------------------------------------------------------
(* Bounds of the model *)

MaxRows == 2

----------------------------------------------------------------------------
(* Cells: what a DataFrame cell can hold *)

Num(n) == [k |-> "num", n |-> n, s |-> <<>>]
Str(s) == [k |-> "str", n |-> 0, s |-> s]
NaN == [k |-> "nan", n |-> 0, s |-> <<>>]
None == [k |-> "none", n |-> 0, s |-> <<>>]

isna(c) == c.k \in {"nan", "none"}
notnull(c) == ~isna(c)

Placeholder == Str(<<"-", "-">>)

\* Code points in increasing order, as far as the model's texts need them.
Alphabet ==
    <<"\n", "+", "-", ".", "0", "1", "2", "3", "4", "5", "6", "7", "8", "9", ";",
      "A", "B", "C", "F", "H", "J", "L", "N", "R", "S", "T", "Z", "a", "n", "x">>

DigitChars == <<"0", "1", "2", "3", "4", "5", "6", "7", "8", "9">>

IsDigit(c) == \E i \in 1..10 : DigitChars[i] = c

DigitVal(c) == (CHOOSE i \in 1..10 : DigitChars[i] = c) - 1

Ord(c) == CHOOSE i \in 1..Len(Alphabet) : Alphabet[i] = c

\* Python's str ordering: by code point, a proper prefix first.
RECURSIVE TextLess(_, _)
TextLess(s, t) ==
    IF t = <<>> THEN FALSE
    ELSE IF s = <<>> THEN TRUE
    ELSE IF Head(s) = Head(t) THEN TextLess(Tail(s), Tail(t))
    ELSE Ord(Head(s)) < Ord(Head(t))

\* str.contains(sub) with a literal pattern
Contains(s, sub) ==
    \E i \in 0..(Len(s) - Len(sub)) : SubSeq(s, i + 1, i + Len(sub)) = sub

\* str.count(sub) for a one-character sub
RECURSIVE CountChar(_, _)
CountChar(s, c) ==
    IF s = <<>> THEN 0
    ELSE (IF Head(s) = c THEN 1 ELSE 0) + CountChar(Tail(s), c)

RECURSIVE NatToText(_)
NatToText(n) ==
    IF n < 10 THEN <<DigitChars[n + 1]>>
    ELSE NatToText(n \div 10) \o <<DigitChars[(n % 10) + 1]>>

RECURSIVE TextToNat(_)
TextToNat(s) ==
    IF s = <<>> THEN 0
    ELSE 10 * TextToNat(SubSeq(s, 1, Len(s) - 1)) + DigitVal(s[Len(s)])

AllDigits(s) == \A i \in 1..Len(s) : IsDigit(s[i])

----------------------------------------------------------------------------
(* DataFrame operations used by the source (pandas), on sequences of rows *)

KeyOf(r, on) == [i \in 1..Len(on) |-> r[on[i]]]

\* Keys compare column by column; within a column by text order.
RECURSIVE KeyLess(_, _)
KeyLess(k1, k2) ==
    IF k1 = <<>> THEN FALSE
    ELSE IF Head(k1) = Head(k2) THEN KeyLess(Tail(k1), Tail(k2))
    ELSE IF isna(Head(k2)) THEN notnull(Head(k1))
    ELSE IF isna(Head(k1)) THEN FALSE
    ELSE TextLess(Head(k1).s, Head(k2).s)

RECURSIVE SortedKeys(_)
SortedKeys(S) ==
    IF S = {} THEN <<>>
    ELSE LET m == CHOOSE k \in S : \A o \in S \ {k} : KeyLess(k, o)
         IN <<m>> \o SortedKeys(S \ {m})

\* groupby(on): the groups, sorted by key; rows with a null key are dropped
\* (dropna=True is the default).
GroupKeys(df, on) ==
    SortedKeys({KeyOf(df[i], on) : i \in {j \in 1..Len(df) :
                    \A f \in 1..Len(on) : notnull(df[j][on[f]])}})

Group(df, on, key) == SelectSeq(df, LAMBDA r : KeyOf(r, on) = key)

KeyRecord(on, key) ==
    [f \in {on[i] : i \in 1..Len(on)} |-> key[CHOOSE i \in 1..Len(on) : on[i] = f]]

\* GroupBy 'first': the first non-null entry of the column within the group.
first(g, col) ==
    LET nn == SelectSeq(g, LAMBDA r : notnull(r[col]))
    IN IF nn = <<>> THEN NaN ELSE nn[1][col]

\* groupby(on).size().reset_index(name=name)
groupby_size(df, on, name) ==
    LET keys == GroupKeys(df, on)
    IN [i \in 1..Len(keys) |->
            KeyRecord(on, keys[i]) @@ (name :> Num(Len(Group(df, on, keys[i]))))]

\* groupby(on).agg({col: 'first' for col in cols}).reset_index()
groupby_first(df, on, cols) ==
    LET keys == GroupKeys(df, on)
    IN [i \in 1..Len(keys) |->
            KeyRecord(on, keys[i]) @@
            [c \in cols |-> first(Group(df, on, keys[i]), c)]]

\* DataFrame.rename(columns={old: new})
rename(df, old, new) ==
    [i \in 1..Len(df) |->
        [f \in (DOMAIN df[i] \ {old}) \cup {new} |->
            IF f = new THEN df[i][old] ELSE df[i][f]]]

\* Join keys match when equal; null keys match each other (pandas merges
\* NaN and None keys with one another).
KeyMatch(l, r, on) ==
    \A i \in 1..Len(on) :
        \/ l[on[i]] = r[on[i]]
        \/ isna(l[on[i]]) /\ isna(r[on[i]])

NaNRow(cols) == [f \in cols |-> NaN]

RECURSIVE Flatten(_)
Flatten(ss) == IF ss = <<>> THEN <<>> ELSE Head(ss) \o Flatten(Tail(ss))

RECURSIVE SortRows(_, _)
SortRows(df, on) ==
    IF df = <<>> THEN <<>>
    ELSE LET m == CHOOSE i \in 1..Len(df) :
                     \A j \in 1..Len(df) :
                        \/ KeyLess(KeyOf(df[i], on), KeyOf(df[j], on))
                        \/ (KeyOf(df[i], on) = KeyOf(df[j], on) /\ i <= j)
             rest == [j \in 1..(Len(df) - 1) |-> IF j < m THEN df[j] ELSE df[j + 1]]
         IN <<df[m]>> \o SortRows(rest, on)

\* pd.merge(left, right, on=on, how=how); leftCols and rightCols are the
\* columns of the two frames.  Left order is kept for inner and left joins;
\* an outer join sorts the union of keys.
merge(left, right, on, how, leftCols, rightCols) ==
    LET onSet == {on[i] : i \in 1..Len(on)}
        matches(l) == SelectSeq(right, LAMBDA r : KeyMatch(l, r, on))
        joined(l) ==
            LET ms == matches(l)
            IN IF ms = <<>>
               THEN IF how = "inner" THEN <<>>
                    ELSE <<l @@ NaNRow(rightCols \ onSet)>>
               ELSE [j \in 1..Len(ms) |-> l @@ ms[j]]
        fromLeft == Flatten([i \in 1..Len(left) |-> joined(left[i])])
        rightOnly ==
            SelectSeq(right, LAMBDA r : \A i \in 1..Len(left) : ~KeyMatch(left[i], r, on))
        fromRight == [j \in 1..Len(rightOnly) |-> rightOnly[j] @@ NaNRow(leftCols \ onSet)]
    IN IF how = "outer" THEN SortRows(fromLeft \o fromRight, on) ELSE fromLeft

\* Series.fillna(value) on one column
fillna_col(df, col, value) ==
    [i \in 1..Len(df) |-> [df[i] EXCEPT ![col] = IF isna(@) THEN value ELSE @]]

\* DataFrame.fillna(value): every column
fillna(df, value) ==
    [i \in 1..Len(df) |-> [f \in DOMAIN df[i] |-> IF isna(df[i][f]) THEN value ELSE df[i][f]]]

\* Texts that float() accepts, as far as the model has them: digits with at
\* most one point and at most three decimals.
IsDecimalText(s) ==
    /\ s # <<>>
    /\ \A i \in 1..Len(s) : IsDigit(s[i]) \/ s[i] = "."
    /\ CountChar(s, ".") <= 1
    /\ \E i \in 1..Len(s) : IsDigit(s[i])

Pow10(e) == IF e = 0 THEN 1 ELSE IF e = 1 THEN 10 ELSE IF e = 2 THEN 100 ELSE 1000

DecimalValue(s) ==
    LET dot == IF CountChar(s, ".") = 0 THEN Len(s) + 1
               ELSE CHOOSE i \in 1..Len(s) : s[i] = "."
        ip == SubSeq(s, 1, dot - 1)
        fp == SubSeq(s, dot + 1, Len(s))
    IN TextToNat(ip) * 1000 + TextToNat(fp) * Pow10(3 - Len(fp))

\* pd.to_numeric(cell, errors='coerce')
to_numeric(c) ==
    IF c.k = "num" THEN c
    ELSE IF c.k = "str" /\ IsDecimalText(c.s) THEN Num(DecimalValue(c.s))
    ELSE NaN

----------------------------------------------------------------------------
(* compare_interview_scores *)

PostingKey == <<"zhaolu_jiguan", "zhiwei_daima">>
SupplementaryKey == <<"bumen_mingcheng", "zhiwei_daima">>

\* The literal of df['yongren_siju'].str.contains(...)
Marker == <<"N", "F", "R", "A">>

OriginalInfoCols == {"zhaolu_jiguan", "zhiwei_daima", "yongren_siju", "zhaokao_zhiwei", "zuidi_fenshu"}

Returned(df) == [exc |-> "", df |-> df]
Raised(e) == [exc |-> e, df |-> <<>>]

\* str.contains gives NaN for a missing department, and indexing with a mask
\* that holds NaN raises ValueError.
FilterRaises(df) == \E i \in 1..Len(df) : isna(df[i].yongren_siju)

\* df = df[df['yongren_siju'].str.contains(marker)]
filter_department(df) ==
    SelectSeq(df, LAMBDA r : Contains(r.yongren_siju.s, Marker))

\* The three merges of the stage, each how='left' on the posting key.
merge_original_counts(info, counts) ==
    merge(info, counts, PostingKey, "left",
          OriginalInfoCols, {"zhaolu_jiguan", "zhiwei_daima", "yuanshi_renshu"})

merge_supplementary_counts_inner(res, counts) ==
    merge(res, counts, PostingKey, "inner",
          OriginalInfoCols \cup {"yuanshi_renshu"},
          {"zhaolu_jiguan", "zhiwei_daima", "dibu_renshu"})

merge_supplementary_counts(res, counts) ==
    merge(res, counts, PostingKey, "left",
          OriginalInfoCols \cup {"yuanshi_renshu"},
          {"zhaolu_jiguan", "zhiwei_daima", "dibu_renshu"})

merge_supplementary_scores(res, scores) ==
    merge(res, scores, PostingKey, "left",
          OriginalInfoCols \cup {"yuanshi_renshu", "dibu_renshu"},
          {"zhaolu_jiguan", "zhiwei_daima", "dibu_fenshu"})

\* f"{x:+.3f}" of a value held in thousandths
format_unsigned_3f(x) ==
    LET a == IF x < 0 THEN 0 - x ELSE x
        frac == a % 1000
    IN (IF x < 0 THEN <<"-">> ELSE <<>>)
       \o NatToText(a \div 1000) \o <<".">>
       \o <<DigitChars[(frac \div 100) + 1], DigitChars[((frac \div 10) % 10) + 1],
            DigitChars[(frac % 10) + 1]>>

format_signed_3f(x) ==
    LET a == IF x < 0 THEN 0 - x ELSE x
        frac == a % 1000
    IN (IF x < 0 THEN <<"-">> ELSE <<"+">>)
       \o NatToText(a \div 1000) \o <<".">>
       \o <<DigitChars[(frac \div 100) + 1], DigitChars[((frac \div 10) % 10) + 1],
            DigitChars[(frac % 10) + 1]>>

\* Series - Series, elementwise: the left side is float64 after to_numeric,
\* the right side is the original score column.  A null on either side gives
\* NaN without the operands being touched; float - str raises TypeError.
SubtractRaises(res) ==
    \E i \in 1..Len(res) :
        /\ notnull(to_numeric(res[i].dibu_fenshu))
        /\ res[i].zuidi_fenshu.k = "str"

subtract_scores(b, o) ==
    IF notnull(b) /\ o.k = "num" THEN Num(b.n - o.n) ELSE NaN

\* lambda x: f"{x:+.3f}" if pd.notnull(x) else '--'
format_delta(x) == IF notnull(x) THEN Str(format_signed_3f(x.n)) ELSE Placeholder

score_delta(res) ==
    [i \in 1..Len(res) |->
        res[i] @@ ("fenshu_bianhua" :>
            format_delta(subtract_scores(to_numeric(res[i].dibu_fenshu), res[i].zuidi_fenshu)))]

compare_interview_scores(original_file, supplementary_file) ==
    LET df == filter_department(original_file)
        original_counts == groupby_size(df, PostingKey, "yuanshi_renshu")
        original_info ==
            groupby_first(df, PostingKey, {"yongren_siju", "zhaokao_zhiwei", "zuidi_fenshu"})
        df_dibu == supplementary_file
        supplementary_counts ==
            rename(groupby_size(df_dibu, SupplementaryKey, "dibu_renshu"),
                   "bumen_mingcheng", "zhaolu_jiguan")
        supplementary_scores ==
            rename(groupby_first(df_dibu, SupplementaryKey, {"dibu_fenshu"}),
                   "bumen_mingcheng", "zhaolu_jiguan")
        result1 == merge_original_counts(original_info, original_counts)
        result2 == merge_supplementary_counts(result1, supplementary_counts)
        result3 == merge_supplementary_scores(result2, supplementary_scores)
        result4 == fillna_col(result3, "dibu_renshu", Num(0))
        result5 == fillna_col(result4, "dibu_fenshu", Placeholder)
    IN IF FilterRaises(original_file) THEN Raised("ValueError")
       ELSE IF SubtractRaises(result5) THEN Raised("TypeError")
       ELSE Returned(score_delta(result5))

----------------------------------------------------------------------------
(* analyze_supplementary_admission *)

\* The repetition count of the pattern \d{12}$
CodeLen == 12

\* The delimiter of '...'.join(x) and str.count(...)
Delimiter == ";"

\* str(position_str)
str_(c) ==
    IF c.k = "nan" THEN <<"n", "a", "n">>
    ELSE IF c.k = "none" THEN <<"N", "o", "n", "e">>
    ELSE IF c.k = "num" THEN NatToText(c.n)
    ELSE c.s

\* $ matches at the end of the string and just before a newline that ends it.
AtEnd(s, i) == i = Len(s) \/ (i = Len(s) - 1 /\ s[Len(s)] = "\n")

\* re.search without the $ anchor: the leftmost run of CodeLen digits
extract_position_code_unanchored(position_str) ==
    LET s == str_(position_str)
        hits == {i \in 0..Len(s) :
                    /\ i + CodeLen <= Len(s)
                    /\ AllDigits(SubSeq(s, i + 1, i + CodeLen))}
    IN IF hits = {} THEN None
       ELSE LET m == CHOOSE i \in hits : \A j \in hits : i <= j
            IN Str(SubSeq(s, m + 1, m + CodeLen))

\* re.search(r'\d{12}$', str(position_str)): the leftmost position where
\* CodeLen digits are followed by the end; match.group(), or None.
extract_position_code(position_str) ==
    LET s == str_(position_str)
        hits == {i \in 0..Len(s) :
                    /\ i + CodeLen <= Len(s)
                    /\ AllDigits(SubSeq(s, i + 1, i + CodeLen))
                    /\ AtEnd(s, i + CodeLen)}
    IN IF hits = {} THEN None
       ELSE LET m == CHOOSE i \in hits : \A j \in hits : i <= j
            IN Str(SubSeq(s, m + 1, m + CodeLen))

\* df_luyong['zhiwei_daima'] = df_luyong['ni_luyong_zhiwei'].apply(extract_position_code)
add_position_code(df_luyong) ==
    [i \in 1..Len(df_luyong) |->
        df_luyong[i] @@ ("zhiwei_daima" :> extract_position_code(df_luyong[i].ni_luyong_zhiwei))]

CandidateKey == <<"zhaolu_jiguan", "zhiwei_daima", "xingming">>
SupplementaryCols == {"zhaolu_jiguan", "zhiwei_daima", "xingming", "dibu_fenshu", "yongren_siju"}
AdmissionCols == {"zhaolu_jiguan", "zhiwei_daima", "xingming", "ni_luyong_zhiwei", "zhaolu_zhiwei"}

merge_admitted_left(df_dibu, df_luyong) ==
    merge(df_dibu, df_luyong, CandidateKey, "left", SupplementaryCols, AdmissionCols)

\* pd.merge(df_dibu.rename(...), df_luyong, on=[...], how='inner')
merge_admitted(df_dibu, df_luyong) ==
    merge(df_dibu, df_luyong, CandidateKey, "inner", SupplementaryCols, AdmissionCols)

\* delimiter.join(x) over the names of a group, in encounter order
RECURSIVE join_names(_)
join_names(g) ==
    IF g = <<>> THEN <<>>
    ELSE IF Len(g) = 1 THEN g[1].xingming.s
    ELSE g[1].xingming.s \o <<Delimiter>> \o join_names(Tail(g))

\* result_df['xingming'].str.count(delimiter) + 1
hired_count(names) == CountChar(names, Delimiter) + 1

analyze_supplementary_admission(supplementary_file, admission_file) ==
    LET df_dibu == supplementary_file
        df_luyong == add_position_code(admission_file)
        admitted_supplementary ==
            merge_admitted(rename(df_dibu, "bumen_mingcheng", "zhaolu_jiguan"), df_luyong)
        keys == GroupKeys(admitted_supplementary, PostingKey)
        result_df ==
            [i \in 1..Len(keys) |->
                LET g == Group(admitted_supplementary, PostingKey, keys[i])
                    names == join_names(g)
                IN [zhaolu_jiguan |-> keys[i][1],
                    zhiwei_daima |-> keys[i][2],
                    yongren_siju |-> first(g, "yongren_siju"),
                    zhaolu_zhiwei |-> first(g, "zhaolu_zhiwei"),
                    luyong_renshu |-> Num(hired_count(names)),
                    luyong_renyuan |-> Str(names)]]
    IN Returned(result_df)

----------------------------------------------------------------------------
(* save_to_excel, pd.read_excel and cross_analyze_results *)

score_result_file == "score_result.xlsx"
admission_result_file == "admission_result.xlsx"
cross_result_file == "cross_summary.xlsx"

ResultFiles == {score_result_file, admission_result_file, cross_result_file}

NoFile == [exists |-> FALSE, sheet |-> <<>>]
File(sheet) == [exists |-> TRUE, sheet |-> sheet]

\* Series.astype(str) on a cell
astype_str(c) == IF c.k = "str" THEN c ELSE Str(str_(c))

\* What DataFrame.to_excel leaves in the sheet: a null is an empty cell.
to_excel(df) ==
    LET coded == [i \in 1..Len(df) |-> [df[i] EXCEPT !["zhiwei_daima"] = astype_str(@)]]
    IN [i \in 1..Len(coded) |->
            [f \in DOMAIN coded[i] |-> IF isna(coded[i][f]) THEN NaN ELSE coded[i][f]]]

\* save_to_excel writes result/<output_file>, replacing a file of that name.
save_to_excel(dir, df, output_file) == [dir EXCEPT ![output_file] = File(to_excel(df))]

\* Some of the texts pandas reads as a missing value
NaStrings == {<<>>, <<"n", "a", "n">>, <<"N", "a", "N">>, <<"N", "A">>,
              <<"N", "o", "n", "e">>, <<"N", "U", "L", "L">>}

\* pd.read_excel(path, dtype={'zhiwei_daima': str}) of a sheet the program wrote
read_excel(sheet) ==
    [i \in 1..Len(sheet) |->
        [f \in DOMAIN sheet[i] |->
            IF isna(sheet[i][f]) \/ (sheet[i][f].k = "str" /\ sheet[i][f].s \in NaStrings)
            THEN NaN ELSE sheet[i][f]]]

ScoreCols == OriginalInfoCols \cup {"yuanshi_renshu", "dibu_renshu", "dibu_fenshu", "fenshu_bianhua"}
HiredCols == {"zhaolu_jiguan", "zhiwei_daima", "luyong_renshu", "luyong_renyuan"}

\* df_admission[[key columns, luyong_renshu, luyong_renyuan]]
select_hired(df) == [i \in 1..Len(df) |-> [f \in HiredCols |-> df[i][f]]]

merge_cross_left(df_scores, df_hired) ==
    merge(df_scores, df_hired, PostingKey, "left", ScoreCols, HiredCols)

\* pd.merge(df_scores, df_admission[[...]], on=[...], how='outer')
merge_cross(df_scores, df_hired) ==
    merge(df_scores, df_hired, PostingKey, "outer", ScoreCols, HiredCols)

coerce_hired_count_skipped(c) == c

\* pd.to_numeric(col.replace('--', '0'), errors='coerce').fillna(0).astype(int)
coerce_hired_count(c) ==
    LET replaced == IF c = Placeholder THEN Str(<<"0">>) ELSE c
    IN IF replaced.k = "num" THEN replaced
       ELSE IF replaced.k = "str" /\ IsDecimalText(replaced.s)
            THEN Num(DecimalValue(replaced.s) \div 1000)
       ELSE Num(0)

fill_merged_skipped(df) == df

\* merged_df = merged_df.fillna('--')
fill_merged(df) == fillna(df, Placeholder)

\* The frame cross_analyze_results writes, from the two sheets it reads
cross_frame(score_sheet, admission_sheet) ==
    LET df_scores == read_excel(score_sheet)
        df_admission == read_excel(admission_sheet)
        merged == fill_merged(merge_cross(df_scores, select_hired(df_admission)))
    IN [i \in 1..Len(merged) |->
            [merged[i] EXCEPT !["luyong_renshu"] = coerce_hired_count(@),
                              !["zhiwei_daima"] = astype_str(@)]]

cross_analyze_results(dir, score_file, admission_file) ==
    IF ~dir[score_file].exists \/ ~dir[admission_file].exists
    THEN Raised("FileNotFoundError")
    ELSE Returned(cross_frame(dir[score_file].sheet, dir[admission_file].sheet))

----------------------------------------------------------------------------
(* The batch run (__main__) *)

\* os.path.exists(<report file name>): a path relative to the working directory
stage_output_exists(files, output_file) == output_file \in files

ScoreStage ==
    /\ pc = "score"
    /\ IF ~stage_output_exists(cwd, score_result_file)
       THEN LET r == compare_interview_scores(original, supplementary)
            IN IF r.exc # ""
               THEN /\ pc' = "failed"
                    /\ exc' = r.exc
                    /\ UNCHANGED <<result, ran, result_scores>>
               ELSE /\ result_scores' = r.df
                    /\ result' = save_to_excel(result, r.df, score_result_file)
                    /\ ran' = ran \cup {"score"}
                    /\ pc' = "admission"
                    /\ exc' = exc
       ELSE /\ pc' = "admission"
            /\ UNCHANGED <<result, ran, result_scores, exc>>
    /\ UNCHANGED <<original, supplementary, admission, cwd, result_at_start, result_admission>>

AdmissionStage ==
    /\ pc = "admission"
    /\ IF ~stage_output_exists(cwd, admission_result_file)
       THEN LET r == analyze_supplementary_admission(supplementary, admission)
            IN /\ result_admission' = r.df
               /\ result' = save_to_excel(result, r.df, admission_result_file)
               /\ ran' = ran \cup {"admission"}
       ELSE UNCHANGED <<result, ran, result_admission>>
    /\ pc' = "cross"
    /\ UNCHANGED <<original, supplementary, admission, cwd, result_at_start, result_scores, exc>>

CrossStage ==
    /\ pc = "cross"
    /\ LET r == cross_analyze_results(result, score_result_file, admission_result_file)
       IN IF r.exc # ""
          THEN /\ pc' = "failed"
               /\ exc' = r.exc
               /\ UNCHANGED <<result, ran>>
          ELSE /\ result' = [result EXCEPT ![cross_result_file] = File(r.df)]
               /\ ran' = ran \cup {"cross"}
               /\ pc' = "done"
               /\ exc' = exc
    /\ UNCHANGED <<original, supplementary, admission, cwd, result_at_start,
                   result_scores, result_admission>>

Next == ScoreStage \/ AdmissionStage \/ CrossStage

----------------------------------------------------------------------------
(* Input files *)

AuthA == Str(<<"B", "J">>)
AuthB == Str(<<"S", "H">>)
Code1 == Str(<<"1", "2", "3", "4", "5", "6", "7", "8", "9", "0", "1", "2">>)
Code2 == Str(<<"4", "1", "0", "1", "0", "0", "1", "0", "0", "0", "0", "1">>)
DeptNFRA == Str(<<"N", "F", "R", "A", "B", "J">>)
DeptOther == Str(<<"C", "S", "R", "C">>)
Title == Str(<<"T">>)
NameZS == Str(<<"Z", "S">>)
NameLS == Str(<<"L", "S">>)
NameWithDelimiter == Str(<<"L", ";", "S">>)

OrigRow(a, c, d, sc) ==
    [zhaolu_jiguan |-> a, zhiwei_daima |-> c, yongren_siju |-> d,
     zhaokao_zhiwei |-> Title, zuidi_fenshu |-> sc]

SuppRow(a, c, nm, sc) ==
    [bumen_mingcheng |-> a, zhiwei_daima |-> c, xingming |-> nm,
     dibu_fenshu |-> sc, yongren_siju |-> DeptNFRA]

AdmRow(a, pos, nm) ==
    [zhaolu_jiguan |-> a, ni_luyong_zhiwei |-> pos, xingming |-> nm, zhaolu_zhiwei |-> Title]

\* Sequences of at most MaxRows rows drawn from S
Rosters(S) == UNION {[1..n -> S] : n \in 0..MaxRows}

Proposed(prefix, code) == Str(prefix \o code.s)

EmptyDir == [f \in ResultFiles |-> NoFile]

StartRun(dir) ==
    /\ result = dir
    /\ result_at_start = dir
    /\ ran = {}
    /\ pc = "score"
    /\ result_scores = <<>>
    /\ result_admission = <<>>
    /\ exc = ""

----------------------------------------------------------------------------
(* The score comparison on varied rosters *)

ScoreOriginalRows ==
    {OrigRow(AuthA, Code1, DeptNFRA, Num(82500)),
     OrigRow(AuthA, Code1, DeptNFRA, NaN),
     OrigRow(AuthA, Code1, DeptNFRA, Str(<<"x">>)),
     OrigRow(AuthA, Code2, DeptNFRA, Num(60000)),
     OrigRow(AuthA, Code2, DeptOther, Num(82500)),
     OrigRow(AuthA, Code2, NaN, Num(60000)),
     OrigRow(AuthA, NaN, DeptNFRA, Num(82500))}

ScoreSupplementaryRows ==
    {SuppRow(AuthA, Code1, NameZS, Num(83000)),
     SuppRow(AuthA, Code1, NameLS, Num(81125)),
     SuppRow(AuthA, Code1, NameZS, NaN),
     SuppRow(AuthA, Code1, NameZS, Str(<<"8", "3", ".", "5">>)),
     SuppRow(AuthA, Code1, NameZS, Str(<<"a", "n">>)),
     SuppRow(AuthA, Code2, NameZS, Num(60000)),
     SuppRow(AuthB, Code1, NameZS, Num(83000))}

InitScore ==
    /\ original \in Rosters(ScoreOriginalRows)
    /\ supplementary \in Rosters(ScoreSupplementaryRows)
    /\ admission = <<>>
    /\ cwd = {}
    /\ StartRun(EmptyDir)

SpecScore == InitScore /\ [][Next]_vars

----------------------------------------------------------------------------
(* The backfill-admission matching on varied rosters *)

AdmissionSupplementaryRows ==
    {SuppRow(AuthA, Code1, NameZS, Num(83000)),
     SuppRow(AuthA, Code1, NameLS, Num(83000)),
     SuppRow(AuthA, Code1, NameWithDelimiter, Num(83000)),
     SuppRow(AuthA, Code2, NameZS, Num(60000)),
     SuppRow(AuthA, NaN, NameZS, Num(60000)),
     SuppRow(AuthB, Code1, NameZS, Num(83000))}

AdmissionRows ==
    {AdmRow(AuthA, Proposed(<<"x">>, Code1), NameZS),
     AdmRow(AuthA, Proposed(<<"x">>, Code1), NameLS),
     AdmRow(AuthA, Proposed(<<"x">>, Code1), NameWithDelimiter),
     AdmRow(AuthA, Proposed(<<"x">>, Code2), NameZS),
     AdmRow(AuthA, Str(<<"x", "x">>), NameZS),
     AdmRow(AuthB, Proposed(<<"x">>, Code1), NameZS)}

InitAdmission ==
    /\ original = <<>>
    /\ supplementary \in Rosters(AdmissionSupplementaryRows)
    /\ admission \in Rosters(AdmissionRows)
    /\ cwd = {}
    /\ StartRun(EmptyDir)

SpecAdmission == InitAdmission /\ [][Next]_vars

----------------------------------------------------------------------------
(* The position code extraction on varied proposed-position texts *)

PositionTexts ==
    {h \o d \o t : h \in {<<>>, <<"x">>, <<"9">>},
                   d \in {Code1.s, SubSeq(Code1.s, 1, CodeLen - 1)},
                   t \in {<<>>, <<"x">>, <<"\n">>}}

ExtractAdmissionRows ==
    {AdmRow(AuthA, Str(p), NameZS) : p \in PositionTexts} \cup {AdmRow(AuthA, NaN, NameZS)}

ExtractSupplementaryRows ==
    {SuppRow(AuthA, Code1, NameZS, Num(83000)), SuppRow(AuthA, NaN, NameZS, Num(83000))}

InitExtract ==
    /\ original = <<>>
    /\ supplementary \in Rosters(ExtractSupplementaryRows)
    /\ admission \in Rosters(ExtractAdmissionRows)
    /\ cwd = {}
    /\ StartRun(EmptyDir)

SpecExtract == InitExtract /\ [][Next]_vars

----------------------------------------------------------------------------
(* The batch run over the states of the two directories *)

RunOriginalRows ==
    {OrigRow(AuthA, Code1, DeptNFRA, Num(82500)),
     OrigRow(AuthA, Code2, DeptNFRA, Num(60000))}

RunSupplementaryRows ==
    {SuppRow(AuthA, Code1, NameZS, Num(83000)),
     SuppRow(AuthB, Code1, NameZS, Num(83000))}

RunAdmissionRows ==
    {AdmRow(AuthA, Proposed(<<"x">>, Code1), NameZS),
     AdmRow(AuthB, Proposed(<<"x">>, Code1), NameZS)}

\* Reports an earlier run left in the result directory
StaleScoreFile ==
    File(to_excel(compare_interview_scores(
            <<OrigRow(AuthB, Code2, DeptNFRA, Num(70000))>>, <<>>).df))

StaleAdmissionFile ==
    File(to_excel(analyze_supplementary_admission(
            <<SuppRow(AuthB, Code2, NameLS, Num(70000))>>,
            <<AdmRow(AuthB, Proposed(<<"x">>, Code2), NameLS)>>).df))

StartDirs ==
    {[f \in ResultFiles |->
        IF f = score_result_file THEN s
        ELSE IF f = admission_result_file THEN a
        ELSE NoFile] : s \in {NoFile, StaleScoreFile}, a \in {NoFile, StaleAdmissionFile}}

Init ==
    /\ original \in Rosters(RunOriginalRows)
    /\ supplementary \in Rosters(RunSupplementaryRows)
    /\ admission \in Rosters(RunAdmissionRows)
    /\ cwd \in SUBSET {score_result_file, admission_result_file}
    /\ \E dir \in StartDirs : StartRun(dir)

Spec == Init /\ [][Next]_vars

----------------------------------------------------------------------------
(* Properties of the score comparison (checked under SpecScore) *)

RowsOf(df) == {df[i] : i \in 1..Len(df)}

PostingKeyOf(r) == <<r.zhaolu_jiguan, r.zhiwei_daima>>

\* Posting keys of the original-roster rows that pass the department filter
FilteredOriginalKeys ==
    {PostingKeyOf(r) : r \in {o \in RowsOf(original) :
        /\ Contains(o.yongren_siju.s, Marker)
        /\ notnull(o.zhaolu_jiguan) /\ notnull(o.zhiwei_daima)}}

SupplementaryKeys ==
    {<<r.bumen_mingcheng, r.zhiwei_daima>> : r \in RowsOf(supplementary)}

RowCount(df, key) == Cardinality({i \in 1..Len(df) : PostingKeyOf(df[i]) = key})

\* C1: every posting key of a filtered original-roster row has exactly one
\* row in the Score Comparison Report, with or without backfill rows for it.
C1_OneRowPerOriginalPosting ==
    "score" \in ran =>
        \A key \in FilteredOriginalKeys : RowCount(result_scores, key) = 1

C1_Witness ==
    /\ "score" \in ran
    /\ \E key \in FilteredOriginalKeys : key \notin SupplementaryKeys
    /\ \E key \in FilteredOriginalKeys :
          Cardinality({i \in 1..Len(supplementary) :
              <<supplementary[i].bumen_mingcheng, supplementary[i].zhiwei_daima>> = key}) = 2

\* A cell that holds a number, or a text pd.to_numeric reads as one
IsNumericCell(c) == c.k = "num" \/ (c.k = "str" /\ IsDecimalText(c.s))

NumericValue(c) == IF c.k = "num" THEN c.n ELSE DecimalValue(c.s)

\* A text of the shape sign, digits, point, three digits
IsSignedThreeDecimals(t) ==
    /\ Len(t) >= 6
    /\ t[1] \in {"+", "-"}
    /\ t[Len(t) - 3] = "."
    /\ AllDigits(SubSeq(t, 2, Len(t) - 4))
    /\ AllDigits(SubSeq(t, Len(t) - 2, Len(t)))

SignedValue(t) ==
    LET magnitude == TextToNat(SubSeq(t, 2, Len(t) - 4)) * 1000
                     + TextToNat(SubSeq(t, Len(t) - 2, Len(t)))
    IN IF t[1] = "-" THEN 0 - magnitude ELSE magnitude

\* C2: in every report row whose backfill and original scores are both
\* numeric, the delta is backfill minus original, written with an explicit
\* sign and exactly three decimals.
C2_DeltaSignedThreeDecimals ==
    "score" \in ran =>
        \A r \in RowsOf(result_scores) :
            (IsNumericCell(r.dibu_fenshu) /\ r.zuidi_fenshu.k = "num") =>
                /\ r.fenshu_bianhua.k = "str"
                /\ IsSignedThreeDecimals(r.fenshu_bianhua.s)
                /\ SignedValue(r.fenshu_bianhua.s)
                      = NumericValue(r.dibu_fenshu) - r.zuidi_fenshu.n
                /\ (NumericValue(r.dibu_fenshu) >= r.zuidi_fenshu.n
                      <=> r.fenshu_bianhua.s[1] = "+")

\* The example of the specification: one original row with 82.5 and one
\* backfill row with 83.0 for the same posting give the delta "+0.500".
C2_Witness ==
    /\ "score" \in ran
    /\ \E r \in RowsOf(result_scores) :
          /\ r.zuidi_fenshu = Num(82500)
          /\ r.dibu_fenshu = Num(83000)
          /\ r.yuanshi_renshu = Num(1)
          /\ r.dibu_renshu = Num(1)
          /\ r.fenshu_bianhua = Str(<<"+", "0", ".", "5", "0", "0">>)

DeltaDeterminable(r) == IsNumericCell(r.dibu_fenshu) /\ IsNumericCell(r.zuidi_fenshu)

\* C3: whenever some posting has no determinable delta (a score missing or
\* not numeric), the stage still completes and that row's delta is '--'.
\* (A run the department filter ended with ValueError is left aside.)
C3_PlaceholderWithoutAbort ==
    (pc # "score" /\ exc # "ValueError") =>
        /\ exc = ""
        /\ "score" \in ran
        /\ \A r \in RowsOf(result_scores) :
              ~DeltaDeterminable(r) => r.fenshu_bianhua = Placeholder

----------------------------------------------------------------------------
(* Properties of the backfill-admission matching *)

\* Pairs (backfill row, admission row) that agree on authority, position
\* code and candidate name, the code being present on both sides
MatchedPairs ==
    {p \in (1..Len(supplementary)) \X (1..Len(admission)) :
        LET b == supplementary[p[1]]
            a == admission[p[2]]
            code == extract_position_code(a.ni_luyong_zhiwei)
        IN /\ notnull(code) /\ code = b.zhiwei_daima
           /\ a.zhaolu_jiguan = b.bumen_mingcheng
           /\ a.xingming = b.xingming}

MatchedPairsOf(key) ==
    {p \in MatchedPairs : <<supplementary[p[1]].bumen_mingcheng,
                            supplementary[p[1]].zhiwei_daima>> = key}

\* C4 (checked under SpecAdmission): the Admission Report has a row for a
\* posting key only if some (authority, position code, candidate) triple is
\* in both rosters; no row carries a zero count.
C4_RowOnlyForMatchedPosting ==
    "admission" \in ran =>
        \A r \in RowsOf(result_admission) :
            /\ MatchedPairsOf(PostingKeyOf(r)) # {}
            /\ r.luyong_renshu.k = "num" /\ r.luyong_renshu.n >= 1

C4_Witness ==
    /\ "admission" \in ran
    /\ result_admission # <<>>
    /\ \E key \in SupplementaryKeys :
          /\ notnull(key[2])
          /\ MatchedPairsOf(key) = {}
          /\ RowCount(result_admission, key) = 0

\* C10 (checked under SpecAdmission): the hired-backfill count of a report
\* row is the number of matched candidate rows grouped under its posting
\* key, whatever the candidate names are.
C10_CountIsMatchedRows ==
    "admission" \in ran =>
        \A r \in RowsOf(result_admission) :
            r.luyong_renshu = Num(Cardinality(MatchedPairsOf(PostingKeyOf(r))))

\* The text ends with CodeLen digits, up to one final newline
TrailingCode(s) ==
    LET body == IF s # <<>> /\ s[Len(s)] = "\n" THEN SubSeq(s, 1, Len(s) - 1) ELSE s
    IN IF Len(body) >= CodeLen /\ AllDigits(SubSeq(body, Len(body) - CodeLen + 1, Len(body)))
       THEN Str(SubSeq(body, Len(body) - CodeLen + 1, Len(body)))
       ELSE None

\* Names of the matched pairs of a key, in encounter order (backfill row,
\* then admission row), joined with the delimiter
RECURSIVE JoinTexts(_)
JoinTexts(ts) ==
    IF ts = <<>> THEN <<>>
    ELSE IF Len(ts) = 1 THEN ts[1]
    ELSE ts[1] \o <<Delimiter>> \o JoinTexts(Tail(ts))

MatchedNames(key) ==
    Flatten([i \in 1..Len(supplementary) |->
        LET js == SelectSeq([j \in 1..Len(admission) |-> j],
                            LAMBDA j : <<i, j>> \in MatchedPairsOf(key))
        IN [n \in 1..Len(js) |-> admission[js[n]].xingming.s]])

\* C9 (checked under SpecExtract): the position code of an admission row is
\* the twelve digits that end its proposed-position text, or none when the
\* text does not end so; a row without a code contributes no candidate to
\* any Admission Report row, even beside a backfill row without a code.
C9_TrailingCodeOrNoJoin ==
    /\ \A a \in RowsOf(admission) :
          extract_position_code(a.ni_luyong_zhiwei) = TrailingCode(str_(a.ni_luyong_zhiwei))
    /\ "admission" \in ran =>
          \A r \in RowsOf(result_admission) :
              /\ notnull(r.zhiwei_daima)
              /\ r.luyong_renyuan = Str(JoinTexts(MatchedNames(PostingKeyOf(r))))

C9_Witness ==
    /\ "admission" \in ran
    /\ result_admission # <<>>
    /\ \E i \in 1..Len(supplementary), j \in 1..Len(admission) :
          /\ isna(supplementary[i].zhiwei_daima)
          /\ extract_position_code(admission[j].ni_luyong_zhiwei) = None
          /\ Contains(admission[j].ni_luyong_zhiwei.s, Code1.s)
          /\ admission[j].zhaolu_jiguan = supplementary[i].bumen_mingcheng
          /\ admission[j].xingming = supplementary[i].xingming

----------------------------------------------------------------------------
(* Properties of the cross analysis and of the batch run (checked under Spec) *)

\* The two reports as the Cross Analyzer finds them, and the report it writes
ScoreReport == result[score_result_file].sheet
AdmissionReport == result[admission_result_file].sheet
CrossReport == result[cross_result_file].sheet

KeysOf(df) == {PostingKeyOf(df[i]) : i \in 1..Len(df)}

\* C5: the hired count of every Cross Analysis row is a non-negative
\* integer, never '--'; a posting without an Admission Report row has 0.
C5_HiredCountIsInteger ==
    pc = "done" =>
        \A r \in RowsOf(CrossReport) :
            /\ r.luyong_renshu.k = "num"
            /\ r.luyong_renshu.n >= 0
            /\ PostingKeyOf(r) \notin KeysOf(AdmissionReport) => r.luyong_renshu = Num(0)

C5_Witness ==
    /\ pc = "done"
    /\ \E r \in RowsOf(CrossReport) :
          PostingKeyOf(r) \notin KeysOf(AdmissionReport) /\ r.luyong_renshu = Num(0)
    /\ \E r \in RowsOf(CrossReport) : r.luyong_renshu = Num(1)

\* C6: the Cross Analysis Report has exactly one row for each posting key of
\* the Score Comparison Report or the Admission Report, and no other row.
C6_OneRowPerKeyOfEitherReport ==
    pc = "done" =>
        /\ \A key \in KeysOf(ScoreReport) \cup KeysOf(AdmissionReport) :
              RowCount(CrossReport, key) = 1
        /\ KeysOf(CrossReport) \subseteq KeysOf(ScoreReport) \cup KeysOf(AdmissionReport)

C6_Witness ==
    /\ pc = "done"
    /\ KeysOf(ScoreReport) \cap KeysOf(AdmissionReport) # {}
    /\ KeysOf(ScoreReport) \ KeysOf(AdmissionReport) # {}
    /\ KeysOf(AdmissionReport) \ KeysOf(ScoreReport) # {}

ScoreOnlyCols == ScoreCols \ {"zhaolu_jiguan", "zhiwei_daima"}

\* C8 as stated: in a row for a key missing from one side, the missing
\* numeric fields are zero and the missing textual fields are '--'.
C8_MissingNumericFieldsZero ==
    pc = "done" =>
        \A r \in RowsOf(CrossReport) :
            /\ PostingKeyOf(r) \notin KeysOf(ScoreReport) =>
                  /\ r.yuanshi_renshu = Num(0)
                  /\ r.zuidi_fenshu = Num(0)
                  /\ r.dibu_renshu = Num(0)
                  /\ \A f \in {"yongren_siju", "zhaokao_zhiwei", "dibu_fenshu", "fenshu_bianhua"} :
                        r[f] = Placeholder
            /\ PostingKeyOf(r) \notin KeysOf(AdmissionReport) =>
                  /\ r.luyong_renshu = Num(0)
                  /\ r.luyong_renyuan = Placeholder

\* C8, amended: in a row for a key missing from one side, a missing hired
\* count is zero and every other missing field, numeric or textual, is '--'.
C8_MissingFieldsPlaceholder ==
    pc = "done" =>
        \A r \in RowsOf(CrossReport) :
            /\ PostingKeyOf(r) \notin KeysOf(ScoreReport) =>
                  \A f \in ScoreOnlyCols : r[f] = Placeholder
            /\ PostingKeyOf(r) \notin KeysOf(AdmissionReport) =>
                  /\ r.luyong_renshu = Num(0)
                  /\ r.luyong_renyuan = Placeholder

C8_Witness ==
    /\ pc = "done"
    /\ "score" \in ran /\ "admission" \in ran
    /\ \E r \in RowsOf(CrossReport) : PostingKeyOf(r) \notin KeysOf(ScoreReport)
    /\ \E r \in RowsOf(CrossReport) : PostingKeyOf(r) \notin KeysOf(AdmissionReport)

StageFile(stage) ==
    IF stage = "score" THEN score_result_file ELSE admission_result_file

StageDecided(stage) ==
    IF stage = "score" THEN pc # "score" ELSE pc \notin {"score", "admission"}

\* C7: a stage is skipped if and only if the file it writes exists when the
\* run starts; a skipped stage leaves that file as it was for the Cross
\* Analyzer to read, and a stage that is not skipped has written it before
\* the Cross Analyzer starts.
C7_SkippedIffOutputExists ==
    \A stage \in {"score", "admission"} :
        StageDecided(stage) =>
            /\ stage \notin ran <=> result_at_start[StageFile(stage)].exists
            /\ stage \notin ran => result[StageFile(stage)] = result_at_start[StageFile(stage)]
            /\ pc \in {"cross", "done"} => result[StageFile(stage)].exists

====
